---- MODULE Spec2Model ----
(***************************************************************************)
(* The advisory diff pipeline of bonustask: process_json (v2/main.py) and  *)
(* process_advisories (main.py with helpers.py).  One run reads a list of  *)
(* advisories and, one advisory at a time, clones or refreshes its         *)
(* repository, checks out the old and the new reference, diffs the files,  *)
(* writes prompt files and appends a result row; the rows are written to   *)
(* patched_dataset.csv after the loop.                                     *)
(*                                                                         *)
(* Strings that the code takes apart are sequences of tokens: a path       *)
(* a/b.py is <<"a", "/", "b", ".py">>, a text is a sequence of characters. *)
(* Python's None is the token "<None>", pandas' NaN is "<NaN>".            *)
(***************************************************************************)
EXTENDS Integers, Sequences, FiniteSets, TLC

VARIABLES
    impl,        \* "v2": process_json, "v1": process_advisories
    advisories,  \* the parsed input list
    remote,      \* the remote repository: reference -> tree (path -> text)
    idx,         \* position of the loop over the advisories (1-based)
    pc,          \* position inside the loop body
    cur,         \* the loop body's local variables
    dirs,        \* local checkouts on disk: repo_dir -> [local, at]
    gitops,      \* history: the git commands and tree walks of the run, in order
    artifacts,   \* diff artifacts on disk: artifact path -> content
    prompts,     \* prompt files on disk: path -> what the file holds
    results,     \* results / out_rows
    emitted,     \* history: the input position each row of results came from
    csv,         \* patched_dataset.csv: the rows as written, or NotWritten
    writes,      \* number of times the result file was written
    log          \* console messages

vars == <<impl, advisories, remote, idx, pc, cur, dirs, gitops, artifacts,
          prompts, results, emitted, csv, writes, log>>

----------------------------------------------------------------------------
(* Bounds of the model *)

MaxAdvisories == 2

----------------------------------------------------------------------------
(* Values *)

None == "<None>"
NaN == "<NaN>"
NoText == <<"<None>">>
NoUrl == <<"<None>">>
NanUrl == <<"<NaN>">>
Absent == <<"<absent>">>
NotWritten == <<"<not written>">>

\* pandas reads a missing or empty CSV cell as NaN; str(NaN) is "nan"
Str(x) == IF x = NaN THEN "nan" ELSE IF x = None THEN "None" ELSE x

\* Python truthiness of an optional string
Truthy(s) == s # None /\ s # ""

Range(s) == {s[i] : i \in 1..Len(s)}

\* every ordering of a finite set
Perms(S) == {p \in [1..Cardinality(S) -> S] : \A i, j \in 1..Cardinality(S) : p[i] = p[j] => i = j}

----------------------------------------------------------------------------
(* str methods on token sequences *)

RECURSIVE rstrip(_, _)
rstrip(s, c) == IF s # <<>> /\ s[Len(s)] = c THEN rstrip(SubSeq(s, 1, Len(s) - 1), c) ELSE s

\* s.split(sep)[-1]
LastSegment(s, sep) ==
    LET cuts == {i \in 1..Len(s) : s[i] = sep}
        from == IF cuts = {} THEN 1 ELSE (CHOOSE i \in cuts : \A j \in cuts : j <= i) + 1
    IN SubSeq(s, from, Len(s))

\* s.replace(old, new) for a one-token old and a token-sequence new
RECURSIVE replace(_, _, _)
replace(s, old, new) ==
    IF s = <<>> THEN <<>>
    ELSE (IF Head(s) = old THEN new ELSE <<Head(s)>>) \o replace(Tail(s), old, new)

\* sub in s
Contains(s, sub) ==
    \E i \in 0..(Len(s) - Len(sub)) : SubSeq(s, i + 1, i + Len(sub)) = sub

\* file.endswith((".py", ".js", ".ts", ".html", ".php"))
SourceExts == {".py", ".js", ".ts", ".html", ".php"}
endswith(path, exts) == path # <<>> /\ path[Len(path)] \in exts

\* str.splitlines() over the line boundary "\n"
RECURSIVE SplitFrom(_, _, _)
SplitFrom(t, i, line) ==
    IF i > Len(t) THEN (IF line = <<>> THEN <<>> ELSE <<line>>)
    ELSE IF t[i] = "\n" THEN <<line>> \o SplitFrom(t, i + 1, <<>>)
    ELSE SplitFrom(t, i + 1, Append(line, t[i]))

splitlines(t) == SplitFrom(t, 1, <<>>)

\* "\n".join(lines)
RECURSIVE join(_, _)
join(sep, lines) ==
    IF lines = <<>> THEN <<>>
    ELSE IF Len(lines) = 1 THEN lines[1]
    ELSE lines[1] \o <<sep>> \o join(sep, Tail(lines))

\* text.strip(): the text without leading and trailing whitespace
Whitespace == {" ", "\n"}
RECURSIVE lstrip(_)
lstrip(t) == IF t # <<>> /\ Head(t) \in Whitespace THEN lstrip(Tail(t)) ELSE t
RECURSIVE rstripws(_)
rstripws(t) == IF t # <<>> /\ t[Len(t)] \in Whitespace THEN rstripws(SubSeq(t, 1, Len(t) - 1)) ELSE t
strip(t) == rstripws(lstrip(t))

\* str(n) for the line numbers of a hunk header
NumStr(n) == CASE n = 0 -> "0" [] n = 1 -> "1" [] n = 2 -> "2" [] n = 3 -> "3"
               [] n = 4 -> "4" [] n = 5 -> "5" [] n = 6 -> "6" [] OTHER -> "many"

----------------------------------------------------------------------------
(* difflib.unified_diff as generate_unified_diff calls it: SequenceMatcher  *)
(* without junk, context of ContextLines lines, lineterm "".  Indices are  *)
(* 0-based and ranges half-open, as in difflib.                            *)

ContextLines == 3

Max(x, y) == IF x >= y THEN x ELSE y
Min(x, y) == IF x <= y THEN x ELSE y

RECURSIVE MatchLen(_, _, _, _, _, _)
MatchLen(a, b, i, j, ahi, bhi) ==
    IF i < ahi /\ j < bhi /\ a[i + 1] = b[j + 1]
    THEN 1 + MatchLen(a, b, i + 1, j + 1, ahi, bhi)
    ELSE 0

\* the longest block a[i:i+k] = b[j:j+k]; of those the earliest in a, then in b
find_longest_match(a, b, alo, ahi, blo, bhi) ==
    LET cands == {<<i, j, MatchLen(a, b, i, j, ahi, bhi)>> :
                     i \in alo..(ahi - 1), j \in blo..(bhi - 1)}
        hits == {c \in cands : c[3] > 0}
        longest == {c \in hits : \A d \in hits : d[3] <= c[3]}
        firstA == {c \in longest : \A d \in longest : c[1] <= d[1]}
    IN IF hits = {} THEN <<alo, blo, 0>>
       ELSE CHOOSE c \in firstA : \A d \in firstA : c[2] <= d[2]

\* get_matching_blocks without the closing (la, lb, 0); a maximal block never
\* touches its neighbour, so the merge of adjacent blocks changes nothing
RECURSIVE MatchingBlocks(_, _, _, _, _, _)
MatchingBlocks(a, b, alo, ahi, blo, bhi) ==
    LET m == find_longest_match(a, b, alo, ahi, blo, bhi)
        i == m[1]
        j == m[2]
        k == m[3]
    IN IF k = 0 THEN <<>>
       ELSE (IF alo < i /\ blo < j THEN MatchingBlocks(a, b, alo, i, blo, j) ELSE <<>>)
            \o <<m>>
            \o (IF i + k < ahi /\ j + k < bhi
                THEN MatchingBlocks(a, b, i + k, ahi, j + k, bhi) ELSE <<>>)

RECURSIVE OpcodesFrom(_, _, _, _)
OpcodesFrom(blocks, n, i, j) ==
    IF n > Len(blocks) THEN <<>>
    ELSE LET ai == blocks[n][1]
             bj == blocks[n][2]
             size == blocks[n][3]
             tag == IF i < ai /\ j < bj THEN "replace"
                    ELSE IF i < ai THEN "delete"
                    ELSE IF j < bj THEN "insert" ELSE ""
         IN (IF tag # "" THEN <<[tag |-> tag, i1 |-> i, i2 |-> ai, j1 |-> j, j2 |-> bj]>>
             ELSE <<>>)
            \o (IF size > 0
                THEN <<[tag |-> "equal", i1 |-> ai, i2 |-> ai + size,
                        j1 |-> bj, j2 |-> bj + size]>>
                ELSE <<>>)
            \o OpcodesFrom(blocks, n + 1, ai + size, bj + size)

get_opcodes(a, b) ==
    OpcodesFrom(MatchingBlocks(a, b, 0, Len(a), 0, Len(b)) \o <<<<Len(a), Len(b), 0>>>>, 1, 0, 0)

\* get_grouped_opcodes: the leading and trailing equal runs are cut to n lines.
\* No equal run between two changes is longer than 2n lines for the texts of
\* this model, so there is one group; a group of one equal run is dropped.
CodesOrEqual(raw) ==
    IF raw = <<>> THEN <<[tag |-> "equal", i1 |-> 0, i2 |-> 1, j1 |-> 0, j2 |-> 1]>> ELSE raw

TrimFirst(codes, n) ==
    IF codes[1].tag = "equal"
    THEN [codes EXCEPT ![1].i1 = Max(codes[1].i1, codes[1].i2 - n),
                       ![1].j1 = Max(codes[1].j1, codes[1].j2 - n)]
    ELSE codes

TrimLast(codes, n) ==
    IF codes[Len(codes)].tag = "equal"
    THEN [codes EXCEPT ![Len(codes)].i2 = Min(codes[Len(codes)].i2, codes[Len(codes)].i1 + n),
                       ![Len(codes)].j2 = Min(codes[Len(codes)].j2, codes[Len(codes)].j1 + n)]
    ELSE codes

OneGroup(codes) == IF Len(codes) = 1 /\ codes[1].tag = "equal" THEN <<>> ELSE <<codes>>

get_grouped_opcodes(a, b, n) ==
    OneGroup(TrimLast(TrimFirst(CodesOrEqual(get_opcodes(a, b)), n), n))

_format_range_unified(start, stop) ==
    LET length == stop - start
    IN IF length = 1 THEN <<NumStr(start + 1)>>
       ELSE <<NumStr(IF length = 0 THEN start ELSE start + 1), ",", NumStr(length)>>

RECURSIVE Prefixed(_, _, _, _)
Prefixed(sign, lines, lo, hi) ==
    IF lo >= hi THEN <<>>
    ELSE <<(<<sign>> \o lines[lo + 1])>> \o Prefixed(sign, lines, lo + 1, hi)

RECURSIVE HunkBody(_, _, _, _)
HunkBody(group, n, a, b) ==
    IF n > Len(group) THEN <<>>
    ELSE LET c == group[n]
         IN (IF c.tag = "equal" THEN Prefixed(" ", a, c.i1, c.i2)
             ELSE (IF c.tag \in {"replace", "delete"} THEN Prefixed("-", a, c.i1, c.i2) ELSE <<>>)
                  \o (IF c.tag \in {"replace", "insert"} THEN Prefixed("+", b, c.j1, c.j2) ELSE <<>>))
            \o HunkBody(group, n + 1, a, b)

\* one hunk: its header and its lines
Hunk(g, a, b) ==
    << <<"@@ -">> \o _format_range_unified(g[1].i1, g[Len(g)].i2)
           \o <<" +">> \o _format_range_unified(g[1].j1, g[Len(g)].j2) \o <<" @@">> >>
    \o HunkBody(g, 1, a, b)

DiffLines(groups, a, b, fromfile, tofile) ==
    IF groups = <<>> THEN <<>>
    ELSE << <<"--- ">> \o fromfile, <<"+++ ">> \o tofile >> \o Hunk(groups[1], a, b)

\* the lines difflib.unified_diff yields
unified_diff(a, b, fromfile, tofile) ==
    DiffLines(get_grouped_opcodes(a, b, ContextLines), a, b, fromfile, tofile)

generate_unified_diff(old_text, new_text, file_path) ==
    IF old_text = NoText \/ new_text = NoText THEN <<>>
    ELSE join("\n", unified_diff(splitlines(old_text), splitlines(new_text),
                                 file_path \o <<" (old)">>, file_path \o <<" (new)">>))


----------------------------------------------------------------------------
(* Files and the remote repository *)

P_sub == <<"a", "/", "b", ".py">>
P_flat == <<"a", "_", "_", "b", ".py">>
P_txt == <<"c", ".txt">>
Paths == {P_sub, P_flat, P_txt}

T_x == <<"x">>
T_xnl == <<"x", "\n">>
T_y == <<"y", "\n">>
T_xy == <<"x", "\n", "y", "\n">>

Tree(sub, flat, txt) == [p \in Paths |-> IF p = P_sub THEN sub ELSE IF p = P_flat THEN flat ELSE txt]

Files(tree) == {p \in Paths : tree[p] # Absent}

RemoteRefs == {"v1", "v2"}
DefaultRef == "v2"

GoodUrl == <<"https:", "/", "/", "h", "/", "demo", ".git">>
BadUrl == <<"https:", "/", "/", "h", "/", "gone", ".git">>
Reachable(url) == url = GoodUrl

CommitUrl(sha) == <<"https:", "/", "/", "h", "/", "demo", "/", "commit", "/", sha>>
IssueUrl == <<"https:", "/", "/", "h", "/", "demo", "/", "issues", "/", "7">>

\* a path segment as the string it is ("" for an empty segment)
Atom(seg) == IF seg = <<>> THEN "" ELSE seg[1]

----------------------------------------------------------------------------
(* Repository access.  Each returns what it did: the checkouts on disk     *)
(* afterwards and the git commands it issued.  net: the network call of    *)
(* this invocation succeeds.                                               *)

Op(cmd, ok) == [cmd |-> cmd, ok |-> ok]

\* clone_or_fetch without the test for an existing checkout: it always clones
clone_or_fetch_Reclones(ds, repo_url, dest, net) ==
    IF Reachable(repo_url) /\ net
    THEN [raised |-> FALSE, ops |-> <<Op("clone", TRUE)>>,
          dirs |-> [d \in DOMAIN ds \cup {dest} |->
                      IF d = dest THEN [local |-> RemoteRefs, at |-> DefaultRef] ELSE ds[d]]]
    ELSE [raised |-> TRUE, ops |-> <<Op("clone", FALSE)>>, dirs |-> ds]

\* v2/main.py clone_or_fetch and helpers.py ensure_repo_cloned
clone_or_fetch(ds, repo_url, dest, net) ==
    IF dest \in DOMAIN ds
    THEN [raised |-> FALSE, ops |-> <<Op("fetch", net)>>,
          dirs |-> IF net THEN [ds EXCEPT ![dest].local = RemoteRefs] ELSE ds]
    ELSE IF Reachable(repo_url) /\ net
    THEN [raised |-> FALSE, ops |-> <<Op("clone", TRUE)>>,
          dirs |-> [d \in DOMAIN ds \cup {dest} |->
                      IF d = dest THEN [local |-> RemoteRefs, at |-> DefaultRef] ELSE ds[d]]]
    ELSE [raised |-> TRUE, ops |-> <<Op("clone", FALSE)>>, dirs |-> ds]

ensure_repo_cloned(ds, repo_url, dest, net) == clone_or_fetch(ds, repo_url, dest, net)

\* repo.git.checkout(ref): GitCommandError unless the reference is known locally
GitCheckout(ds, dest, ref) ==
    IF ref \in ds[dest].local
    THEN [ok |-> TRUE, dirs |-> [ds EXCEPT ![dest].at = ref]]
    ELSE [ok |-> FALSE, dirs |-> ds]

\* repo.remote().fetch()
GitFetch(ds, dest, net) ==
    IF net THEN [ok |-> TRUE, dirs |-> [ds EXCEPT ![dest].local = RemoteRefs]]
    ELSE [ok |-> FALSE, dirs |-> ds]

\* lines 47-52 of checkout, lines 43-44 of checkout_ref: fetch, then retry
FetchAndRetry(ds, dest, ref, net) ==
    IF ~GitFetch(ds, dest, net).ok
    THEN [ok |-> FALSE, ops |-> <<Op("fetch", FALSE)>>, dirs |-> ds]
    ELSE [ok |-> GitCheckout(GitFetch(ds, dest, net).dirs, dest, ref).ok,
          ops |-> <<Op("fetch", TRUE),
                    Op("checkout", GitCheckout(GitFetch(ds, dest, net).dirs, dest, ref).ok)>>,
          dirs |-> GitCheckout(GitFetch(ds, dest, net).dirs, dest, ref).dirs]

\* checkout that fetches before its first attempt
checkout_FetchFirst(ds, dest, ref, net) ==
    IF ~Truthy(ref) THEN [ok |-> FALSE, ops |-> <<>>, dirs |-> ds]
    ELSE [ok |-> FetchAndRetry(ds, dest, ref, net).ok,
          ops |-> FetchAndRetry(ds, dest, ref, net).ops,
          dirs |-> FetchAndRetry(ds, dest, ref, net).dirs]

\* v2/main.py checkout
checkout(ds, dest, ref, net) ==
    IF ~Truthy(ref) THEN [ok |-> FALSE, ops |-> <<>>, dirs |-> ds]
    ELSE IF GitCheckout(ds, dest, ref).ok
    THEN [ok |-> TRUE, ops |-> <<Op("checkout", TRUE)>>, dirs |-> GitCheckout(ds, dest, ref).dirs]
    ELSE [ok |-> FetchAndRetry(ds, dest, ref, net).ok,
          ops |-> <<Op("checkout", FALSE)>> \o FetchAndRetry(ds, dest, ref, net).ops,
          dirs |-> FetchAndRetry(ds, dest, ref, net).dirs]

\* helpers.py checkout_ref: no guard on the reference; a failing fetch or retry
\* raises to the caller
checkout_ref(ds, dest, ref, net) ==
    IF GitCheckout(ds, dest, ref).ok
    THEN [raised |-> FALSE, ops |-> <<Op("checkout", TRUE)>>,
          dirs |-> GitCheckout(ds, dest, ref).dirs]
    ELSE [raised |-> ~FetchAndRetry(ds, dest, ref, net).ok,
          ops |-> <<Op("checkout", FALSE)>> \o FetchAndRetry(ds, dest, ref, net).ops,
          dirs |-> FetchAndRetry(ds, dest, ref, net).dirs]

\* the working tree of a checkout
WorkTree(ds, dest) == remote[ds[dest].at]


----------------------------------------------------------------------------
(* Shared pieces of the two loops *)

\* the operations `ops` as history entries of advisory i
Tag(ops, i) == [k \in 1..Len(ops) |-> [adv |-> i, cmd |-> ops[k].cmd, ok |-> ops[k].ok]]

Put(f, k, v) == [x \in DOMAIN f \cup {k} |-> IF x = k THEN v ELSE f[x]]

EmptyMap == [x \in {} |-> <<>>]

EmptySnapshot == [keys |-> <<>>, val |-> EmptyMap]

EmptyCur == [ghsa |-> None, ecosystem |-> None, repo_url |-> NoUrl, repo_name |-> <<>>, repo_dir |-> <<>>,
             commit_urls |-> <<>>, vuln_old |-> None, vuln_new |-> None,
             patched_old |-> None, patched_new |-> None,
             commit_old |-> None, commit_new |-> None,
             old_snapshot |-> EmptySnapshot, new_snapshot |-> EmptySnapshot,
             diff_paths |-> <<>>, changed_files |-> <<>>, file_pairs |-> <<>>]

\* output_root / "diffs" / ghsa and output_root / "prompts" / ghsa, relative to
\* output_root; joining "" adds nothing
SubDir(top, ghsa) == IF ghsa = "" THEN <<top, "/">> ELSE <<top, "/", ghsa, "/">>

\* os.walk(repo_dir) lists a directory's files before it descends; the order
\* inside one directory is the file system's
WalkOrders(tree) ==
    LET top == {p \in Files(tree) : ~Contains(p, <<"/">>)}
        sub == {p \in Files(tree) : Contains(p, <<"/">>)}
    IN {a \o b : a \in Perms(top), b \in Perms(sub)}

load_file_safe(tree, path) == IF tree[path] = Absent THEN NoText ELSE tree[path]

\* lines 149-155 and 162-168: the snapshot of a working tree walked in `order`
RECURSIVE Snapshot(_, _, _, _)
Snapshot(tree, order, n, snap) ==
    IF n > Len(order) THEN snap
    ELSE Snapshot(tree, order, n + 1,
                  IF endswith(order[n], SourceExts)
                  THEN [keys |-> IF order[n] \in Range(snap.keys) THEN snap.keys
                                 ELSE Append(snap.keys, order[n]),
                        val |-> Put(snap.val, order[n], load_file_safe(tree, order[n]))]
                  ELSE snap)

\* dict.get(key): None for a missing key
Get(snap, key) == IF key \in DOMAIN snap.val THEN snap.val[key] ELSE NoText

\* the name of a file's diff artifact, lines 185 and (main.py) 130
safe_name(file_path) == replace(file_path, "/", <<"_", "_">>)

\* lines 176-188: the loop over old_snapshot
RECURSIVE DiffLoop(_, _, _, _, _)
DiffLoop(old, new, diffs_dir, n, acc) ==
    IF n > Len(old.keys) THEN acc
    ELSE LET file_path == old.keys[n]
             diff_text == generate_unified_diff(Get(old, file_path), Get(new, file_path), file_path)
             out_path == diffs_dir \o safe_name(file_path) \o <<".diff">>
         IN DiffLoop(old, new, diffs_dir, n + 1,
                     IF strip(diff_text) # <<>>
                     THEN [artifacts |-> Put(acc.artifacts, out_path, diff_text),
                           diff_paths |-> Append(acc.diff_paths, out_path)]
                     ELSE acc)


----------------------------------------------------------------------------
(* process_json, v2/main.py *)

\* lines 19-23
safe_get_commit_urls(refs) == SelectSeq(refs, LAMBDA r : Contains(r, <<"/", "commit", "/">>))

Crash(why) ==
    /\ pc' = "crashed"
    /\ log' = Append(log, <<why, idx>>)
    /\ UNCHANGED <<impl, advisories, remote, idx, cur, dirs, gitops, artifacts,
                   prompts, results, emitted, csv, writes>>

\* lines 91-115: the next row; a row without repository URL is skipped
V2Row ==
    /\ impl = "v2" /\ pc = "loop" /\ idx <= Len(advisories)
    /\ LET row == advisories[idx]
           ghsa == row.ghsa_id
           repo_url == row.source_code_location
           vulns == row.vulnerabilities
           repo_name == LastSegment(rstrip(repo_url, "/"), "/")
       IN IF repo_url = NoUrl \/ repo_url = <<>>
          THEN /\ log' = Append(log, <<"SKIP", idx>>)
               /\ idx' = idx + 1
               /\ UNCHANGED <<pc, cur>>
          ELSE /\ cur' = [EmptyCur EXCEPT
                            !.ghsa = ghsa,
                            !.repo_url = repo_url,
                            !.commit_urls = safe_get_commit_urls(row.references),
                            !.vuln_old = IF vulns # <<>> THEN vulns[1].vulnerable_version_range ELSE None,
                            !.patched_new = IF vulns # <<>> THEN vulns[1].first_patched_version ELSE None,
                            !.repo_name = repo_name,
                            !.repo_dir = <<Str(ghsa), "_">> \o repo_name]
               /\ pc' = "clone"
               /\ UNCHANGED <<idx, log>>
    /\ UNCHANGED <<impl, advisories, remote, dirs, gitops, artifacts, prompts, results, emitted, csv, writes>>

\* lines 117-121: a failed clone is printed and the row is left
V2Clone ==
    /\ impl = "v2" /\ pc = "clone"
    /\ \E net \in BOOLEAN :
         LET r == clone_or_fetch(dirs, cur.repo_url, cur.repo_dir, net)
         IN /\ gitops' = gitops \o Tag(r.ops, idx)
            /\ dirs' = r.dirs
            /\ IF r.raised
               THEN /\ log' = Append(log, <<"ERROR clone", idx>>)
                    /\ idx' = idx + 1
                    /\ pc' = "loop"
               ELSE /\ pc' = "checkout_old"
                    /\ UNCHANGED <<idx, log>>
    /\ UNCHANGED <<impl, advisories, remote, cur, artifacts, prompts, results, emitted, csv, writes>>

\* lines 129-142: a commit URL's last segment if there is one, else the version
ChooseNew(urls, patched_new) ==
    IF Len(urls) >= 1 /\ Truthy(Atom(LastSegment(urls[1], "/")))
    THEN Atom(LastSegment(urls[1], "/")) ELSE patched_new

ChooseOld(urls, vuln_old) ==
    IF Len(urls) >= 2 /\ Truthy(Atom(LastSegment(urls[2], "/")))
    THEN Atom(LastSegment(urls[2], "/")) ELSE vuln_old

\* V2CheckoutOld that leaves the row when the old reference cannot be checked out
V2CheckoutOld_Skips ==
    /\ impl = "v2" /\ pc = "checkout_old"
    /\ \E net \in BOOLEAN :
         LET r == checkout(dirs, cur.repo_dir, ChooseOld(cur.commit_urls, cur.vuln_old), net)
         IN /\ cur' = [cur EXCEPT !.commit_old = ChooseOld(cur.commit_urls, cur.vuln_old),
                                  !.commit_new = ChooseNew(cur.commit_urls, cur.patched_new)]
            /\ gitops' = gitops \o Tag(r.ops, idx)
            /\ dirs' = r.dirs
            /\ log' = IF r.ok THEN log ELSE Append(log, <<"WARN old", idx>>)
            /\ idx' = IF r.ok THEN idx ELSE idx + 1
            /\ pc' = IF r.ok THEN "snapshot_old" ELSE "loop"
    /\ UNCHANGED <<impl, advisories, remote, artifacts, prompts, results, emitted, csv, writes>>

\* lines 129-146: the two references are chosen, the old one is checked out
V2CheckoutOld ==
    /\ impl = "v2" /\ pc = "checkout_old"
    /\ LET commit_old == ChooseOld(cur.commit_urls, cur.vuln_old)
           commit_new == ChooseNew(cur.commit_urls, cur.patched_new)
       IN \E net \in BOOLEAN :
            LET r == checkout(dirs, cur.repo_dir, commit_old, net)
            IN /\ cur' = [cur EXCEPT !.commit_old = commit_old, !.commit_new = commit_new]
               /\ gitops' = gitops \o Tag(r.ops, idx)
               /\ dirs' = r.dirs
               /\ log' = IF r.ok THEN log ELSE Append(log, <<"WARN old", idx>>)
    /\ pc' = "snapshot_old"
    /\ UNCHANGED <<impl, advisories, remote, idx, artifacts, prompts, results, emitted, csv, writes>>

\* V2SnapshotOld that checks the new reference out before it reads the tree
V2SnapshotOld_AfterNewCheckout ==
    /\ impl = "v2" /\ pc = "snapshot_old"
    /\ \E net \in BOOLEAN :
         /\ dirs' = checkout(dirs, cur.repo_dir, cur.commit_new, net).dirs
         /\ gitops' = gitops \o Tag(checkout(dirs, cur.repo_dir, cur.commit_new, net).ops, idx)
                             \o <<[adv |-> idx, cmd |-> "walk", ok |-> TRUE]>>
    /\ \E order \in WalkOrders(WorkTree(dirs', cur.repo_dir)) :
         cur' = [cur EXCEPT !.old_snapshot =
                    Snapshot(WorkTree(dirs', cur.repo_dir), order, 1, EmptySnapshot)]
    /\ pc' = "checkout_new"
    /\ UNCHANGED <<impl, advisories, remote, idx, artifacts, prompts, results, emitted, csv,
                   writes, log>>

\* lines 148-155
V2SnapshotOld ==
    /\ impl = "v2" /\ pc = "snapshot_old"
    /\ \E order \in WalkOrders(WorkTree(dirs, cur.repo_dir)) :
         cur' = [cur EXCEPT !.old_snapshot =
                    Snapshot(WorkTree(dirs, cur.repo_dir), order, 1, EmptySnapshot)]
    /\ gitops' = Append(gitops, [adv |-> idx, cmd |-> "walk", ok |-> TRUE])
    /\ pc' = "checkout_new"
    /\ UNCHANGED <<impl, advisories, remote, idx, dirs, artifacts, prompts, results, emitted, csv,
                   writes, log>>

\* lines 157-159
V2CheckoutNew ==
    /\ impl = "v2" /\ pc = "checkout_new"
    /\ \E net \in BOOLEAN :
         LET r == checkout(dirs, cur.repo_dir, cur.commit_new, net)
         IN /\ gitops' = gitops \o Tag(r.ops, idx)
            /\ dirs' = r.dirs
            /\ log' = IF r.ok THEN log ELSE Append(log, <<"WARN new", idx>>)
    /\ pc' = "snapshot_new"
    /\ UNCHANGED <<impl, advisories, remote, idx, cur, artifacts, prompts, results, emitted, csv, writes>>

\* lines 161-168
V2SnapshotNew ==
    /\ impl = "v2" /\ pc = "snapshot_new"
    /\ \E order \in WalkOrders(WorkTree(dirs, cur.repo_dir)) :
         cur' = [cur EXCEPT !.new_snapshot =
                    Snapshot(WorkTree(dirs, cur.repo_dir), order, 1, EmptySnapshot)]
    /\ gitops' = Append(gitops, [adv |-> idx, cmd |-> "walk", ok |-> TRUE])
    /\ pc' = "diff"
    /\ UNCHANGED <<impl, advisories, remote, idx, dirs, artifacts, prompts, results, emitted, csv,
                   writes, log>>

\* lines 173-188: Path / None raises TypeError, which nothing catches
V2Diff ==
    /\ impl = "v2" /\ pc = "diff"
    /\ IF cur.ghsa = None
       THEN Crash("TypeError")
       ELSE LET r == DiffLoop(cur.old_snapshot, cur.new_snapshot, SubDir("diffs", cur.ghsa), 1,
                              [artifacts |-> artifacts, diff_paths |-> <<>>])
            IN /\ artifacts' = r.artifacts
               /\ cur' = [cur EXCEPT !.diff_paths = r.diff_paths]
               /\ pc' = "emit"
               /\ UNCHANGED <<impl, advisories, remote, idx, dirs, gitops, prompts, results, emitted,
                              csv, writes, log>>

\* V2Emit that puts the diff texts, not their paths, into the row
V2Emit_Content ==
    /\ impl = "v2" /\ pc = "emit"
    /\ results' = Append(results,
          [ghsa_id |-> cur.ghsa, repo_url |-> cur.repo_url,
           commit_old |-> cur.commit_old, commit_new |-> cur.commit_new,
           vulnerable_range |-> cur.vuln_old, patched_version |-> cur.patched_new,
           diff_files |-> [k \in 1..Len(cur.diff_paths) |-> artifacts[cur.diff_paths[k]]],
           prompts_dir |-> SubDir("prompts", cur.ghsa)])
    /\ emitted' = Append(emitted, idx)
    /\ idx' = idx + 1
    /\ pc' = "loop"
    /\ UNCHANGED <<impl, advisories, remote, cur, dirs, gitops, artifacts, prompts, csv,
                   writes, log>>

\* lines 193-230: the two prompt files and the result row
V2Emit ==
    /\ impl = "v2" /\ pc = "emit"
    /\ LET prompts_dir == SubDir("prompts", cur.ghsa)
       IN /\ prompts' = Put(Put(prompts,
                               prompts_dir \o <<"localization_prompt.txt">>,
                               [advisory |-> cur.ghsa]),
                           prompts_dir \o <<"fix_check_prompt.txt">>,
                           [advisory |-> cur.ghsa, vulnerable_version |-> cur.vuln_old,
                            patched_version |-> cur.patched_new])
          /\ results' = Append(results,
                [ghsa_id |-> cur.ghsa, repo_url |-> cur.repo_url,
                 commit_old |-> cur.commit_old, commit_new |-> cur.commit_new,
                 vulnerable_range |-> cur.vuln_old, patched_version |-> cur.patched_new,
                 diff_files |-> cur.diff_paths, prompts_dir |-> prompts_dir])
    /\ emitted' = Append(emitted, idx)
    /\ idx' = idx + 1
    /\ pc' = "loop"
    /\ UNCHANGED <<impl, advisories, remote, cur, dirs, gitops, artifacts, csv, writes, log>>

\* v2/main.py lines 232-235 and main.py lines 172-175: the table is written
Save ==
    /\ pc = "loop" /\ idx > Len(advisories)
    /\ csv' = results
    /\ writes' = writes + 1
    /\ pc' = "done"
    /\ UNCHANGED <<impl, advisories, remote, idx, cur, dirs, gitops, artifacts, prompts,
                   results, emitted, log>>


----------------------------------------------------------------------------
(* process_advisories, main.py with helpers.py *)

\* git lists changed paths in byte order
PathOrder == <<P_sub, P_flat, P_txt>>

\* helpers.py lines 47-53: git diff --name-only old..new; any failure gives []
list_changed_files(ds, dest, old_ref, new_ref) ==
    IF old_ref \in ds[dest].local /\ new_ref \in ds[dest].local
    THEN SelectSeq(PathOrder, LAMBDA p : remote[old_ref][p] # remote[new_ref][p])
    ELSE <<>>

\* helpers.py lines 56-73.  MAX_DIFF_FILE_SIZE is a global of main.py, not of
\* helpers.py: for a file that exists line 67 raises NameError, and lines 68-73
\* are never reached.
write_file_version(ds, dest, ref, filepath) ==
    IF ~GitCheckout(ds, dest, ref).ok
    THEN [ret |-> "None", warned |-> TRUE, ops |-> <<Op("checkout", FALSE)>>, dirs |-> ds]
    ELSE [ret |-> IF WorkTree(GitCheckout(ds, dest, ref).dirs, dest)[filepath] = Absent
                  THEN "None" ELSE "NameError",
          warned |-> FALSE, ops |-> <<Op("checkout", TRUE)>>,
          dirs |-> GitCheckout(ds, dest, ref).dirs]

\* main.py lines 114-118: both versions of one changed file
WritePair(acc, dest, old_ref, new_ref, file, f_old) ==
    IF f_old.ret = "NameError"
    THEN [raised |-> TRUE, dirs |-> f_old.dirs, ops |-> acc.ops \o f_old.ops,
          warns |-> acc.warns, file_pairs |-> acc.file_pairs]
    ELSE [raised |-> write_file_version(f_old.dirs, dest, new_ref, file).ret = "NameError",
          dirs |-> write_file_version(f_old.dirs, dest, new_ref, file).dirs,
          ops |-> acc.ops \o f_old.ops \o write_file_version(f_old.dirs, dest, new_ref, file).ops,
          warns |-> acc.warns + (IF f_old.warned THEN 1 ELSE 0)
                    + (IF write_file_version(f_old.dirs, dest, new_ref, file).warned THEN 1 ELSE 0),
          file_pairs |-> acc.file_pairs]

\* main.py lines 112-118: the loop over the changed files
RECURSIVE WriteVersions(_, _, _, _, _, _)
WriteVersions(files, n, dest, old_ref, new_ref, acc) ==
    IF n > Len(files) \/ acc.raised THEN acc
    ELSE WriteVersions(files, n + 1, dest, old_ref, new_ref,
             WritePair(acc, dest, old_ref, new_ref, files[n],
                       write_file_version(acc.dirs, dest, old_ref, files[n])))

\* repo.git.diff(old..new): empty for equal trees, GitCommandError for a
\* reference git does not know
git_diff(ds, dest, old_ref, new_ref) ==
    IF old_ref \in ds[dest].local /\ new_ref \in ds[dest].local
    THEN [raised |-> FALSE,
          out |-> IF remote[old_ref] # remote[new_ref]
                  THEN <<"git diff", old_ref, new_ref>> ELSE <<>>]
    ELSE [raised |-> TRUE, out |-> <<>>]

\* run_cmd(git diff -U0 old..new -- fp): the return code and the output
git_diff_U0(ds, dest, old_ref, new_ref, fp) ==
    IF old_ref \in ds[dest].local /\ new_ref \in ds[dest].local
    THEN [rc |-> 0,
          out |-> IF remote[old_ref][fp] # remote[new_ref][fp]
                  THEN <<"git diff -U0", old_ref, new_ref>> \o fp ELSE <<>>]
    ELSE [rc |-> 128, out |-> <<>>]

\* helpers.py lines 76-90.  GUMTREE_JAR is a global of main.py, not of
\* helpers.py: building the command at line 78 raises NameError, and no tool
\* is started
run_gumtree_diff(old_file, new_file, out_json) == [raised |-> TRUE, ok |-> FALSE]

\* main.py lines 129-139, one file pair
GumStep(acc, ds, dest, refs, fp, gum_out, tool) ==
    IF tool.raised THEN [acc EXCEPT !.raised = TRUE]
    ELSE IF ~tool.ok THEN acc
    ELSE [raised |-> FALSE,
          gum_outputs |-> Append(acc.gum_outputs, gum_out),
          localized_hunks |->
              IF git_diff_U0(ds, dest, refs[1], refs[2], fp).rc = 0
                 /\ strip(git_diff_U0(ds, dest, refs[1], refs[2], fp).out) # <<>>
              THEN Append(acc.localized_hunks,
                          [file |-> fp,
                           git_hunk |-> git_diff_U0(ds, dest, refs[1], refs[2], fp).out])
              ELSE acc.localized_hunks]

\* main.py lines 127-139: the structural diff of each file pair
RECURSIVE GumLoop(_, _, _, _, _, _, _)
GumLoop(pairs, n, gum_dir, ds, dest, refs, acc) ==
    IF n > Len(pairs) \/ acc.raised THEN acc
    ELSE GumLoop(pairs, n + 1, gum_dir, ds, dest, refs,
                 GumStep(acc, ds, dest, refs, pairs[n][1],
                         gum_dir \o safe_name(pairs[n][1]) \o <<".json">>,
                         run_gumtree_diff(pairs[n][2], pairs[n][3],
                                          gum_dir \o safe_name(pairs[n][1]) \o <<".json">>)))

\* lines 85-96: a missing cell is NaN, a float, and has no rstrip
V1Row ==
    /\ impl = "v1" /\ pc = "loop" /\ idx <= Len(advisories)
    /\ LET row == advisories[idx]
           repo_url == row.source_code_location
           repo_name == replace(LastSegment(rstrip(repo_url, "/"), "/"), ".git", <<>>)
       IN IF repo_url = NanUrl
          THEN Crash("AttributeError")
          ELSE /\ cur' = [EmptyCur EXCEPT
                            !.ghsa = row.ghsa_id,
                            !.ecosystem = row.ecosystem,
                            !.repo_url = repo_url,
                            !.vuln_old = Str(row.vulnerable_version_old),
                            !.vuln_new = Str(row.vulnerable_version_new),
                            !.patched_old = Str(row.patched_version_old),
                            !.patched_new = Str(row.patched_version_new),
                            !.repo_name = repo_name,
                            !.repo_dir = <<"workspace", "/", Str(row.ghsa_id), "_">> \o repo_name]
               /\ pc' = "clone"
               /\ UNCHANGED <<impl, advisories, remote, idx, dirs, gitops, artifacts, prompts,
                              results, emitted, csv, writes, log>>

\* lines 97-101
V1Clone ==
    /\ impl = "v1" /\ pc = "clone"
    /\ \E net \in BOOLEAN :
         LET r == ensure_repo_cloned(dirs, cur.repo_url, cur.repo_dir, net)
         IN /\ gitops' = gitops \o Tag(r.ops, idx)
            /\ dirs' = r.dirs
            /\ IF r.raised
               THEN /\ log' = Append(log, <<"ERROR clone", idx>>)
                    /\ idx' = idx + 1
                    /\ pc' = "loop"
               ELSE /\ pc' = "changed"
                    /\ UNCHANGED <<idx, log>>
    /\ UNCHANGED <<impl, advisories, remote, cur, artifacts, prompts, results, emitted, csv, writes>>

\* lines 103-110: Path / NaN raises TypeError
V1Changed ==
    /\ impl = "v1" /\ pc = "changed"
    /\ IF cur.ghsa = NaN
       THEN Crash("TypeError")
       ELSE LET first == list_changed_files(dirs, cur.repo_dir, cur.vuln_old, cur.patched_new)
                changed == IF first = <<>>
                           THEN list_changed_files(dirs, cur.repo_dir, cur.patched_old,
                                                   cur.patched_new)
                           ELSE first
            IN /\ cur' = [cur EXCEPT !.changed_files = changed]
               /\ pc' = "versions"
               /\ UNCHANGED <<impl, advisories, remote, idx, dirs, gitops, artifacts, prompts,
                              results, emitted, csv, writes, log>>

\* lines 112-118
V1Versions ==
    /\ impl = "v1" /\ pc = "versions"
    /\ LET r == WriteVersions(cur.changed_files, 1, cur.repo_dir, cur.vuln_old, cur.patched_new,
                              [raised |-> FALSE, dirs |-> dirs, ops |-> <<>>, warns |-> 0,
                               file_pairs |-> <<>>])
       IN /\ dirs' = r.dirs
          /\ gitops' = gitops \o Tag(r.ops, idx)
          /\ cur' = [cur EXCEPT !.file_pairs = r.file_pairs]
          /\ log' = log \o [i \in 1..r.warns |-> <<"warning checkout", idx>>]
                        \o (IF r.raised THEN << <<"NameError", idx>> >> ELSE <<>>)
          /\ pc' = IF r.raised THEN "crashed" ELSE "emit"
    /\ UNCHANGED <<impl, advisories, remote, idx, artifacts, prompts, results, emitted, csv, writes>>

\* lines 120-170: the repository diff, the structural diffs, the prompt files
\* and the result row
V1Emit ==
    /\ impl = "v1" /\ pc = "emit"
    /\ LET diffs_dir == SubDir("diffs", cur.ghsa)
           gum_dir == SubDir("gumtree", cur.ghsa)
           prompts_dir == SubDir("prompts", cur.ghsa)
           git_diff_path == diffs_dir \o cur.repo_name
                              \o <<"_", cur.vuln_old, "_to_", cur.patched_new, ".diff">>
           g == GumLoop(cur.file_pairs, 1, gum_dir, dirs, cur.repo_dir,
                        <<cur.vuln_old, cur.patched_new>>,
                        [raised |-> FALSE, gum_outputs |-> <<>>, localized_hunks |-> <<>>])
       IN /\ artifacts' = Put(artifacts, git_diff_path,
                              git_diff(dirs, cur.repo_dir, cur.vuln_old, cur.patched_new).out)
          /\ IF g.raised
             THEN /\ pc' = "crashed"
                  /\ log' = Append(log, <<"NameError", idx>>)
                  /\ UNCHANGED <<prompts, results, emitted, idx>>
             ELSE /\ prompts' = Put(Put(prompts,
                                        prompts_dir \o <<"localization_prompt.txt">>,
                                        [gumtree_json_files |->
                                            SubSeq(g.gum_outputs, 1, Min(5, Len(g.gum_outputs)))]),
                                    prompts_dir \o <<"fix_prompt.txt">>,
                                    [advisory_text |-> "", vul_ref |-> cur.vuln_old,
                                     patched_ref |-> cur.patched_new,
                                     git_diff_path |-> git_diff_path])
                  /\ results' = Append(results,
                        [ghsa_id |-> cur.ghsa, ecosystem |-> cur.ecosystem,
                         source_code_location |-> cur.repo_dir,
                         vulnerable_version_old |-> cur.vuln_old,
                         vulnerable_version_new |-> cur.vuln_new,
                         patched_version_old |-> cur.patched_old,
                         patched_version_new |-> cur.patched_new,
                         git_diff_path |-> git_diff_path,
                         gumtree_diff_paths |-> [json |-> g.gum_outputs],
                         localized_hunks |-> [json |-> g.localized_hunks],
                         prompts_dir |-> prompts_dir])
                  /\ emitted' = Append(emitted, idx)
                  /\ idx' = idx + 1
                  /\ pc' = "loop"
                  /\ UNCHANGED log
    /\ UNCHANGED <<impl, advisories, remote, cur, dirs, gitops, csv, writes>>


----------------------------------------------------------------------------
(* Inputs *)

Vuln(old, new) == [vulnerable_version_range |-> old, first_patched_version |-> new]

Adv2(ghsa, url, refs, vulns) ==
    [ghsa_id |-> ghsa, source_code_location |-> url, references |-> refs,
     vulnerabilities |-> vulns]

\* rows of the JSON input of process_json
RecordsV2 ==
    { Adv2("G1", GoodUrl, <<>>, <<Vuln("v1", "v2")>>),
      Adv2("G2", GoodUrl, <<CommitUrl("v2"), IssueUrl, CommitUrl("v1")>>, <<>>),
      Adv2("G2", BadUrl, <<>>, <<Vuln("v1", "v2")>>),
      Adv2("G1", NoUrl, <<>>, <<Vuln("v1", "v2")>>),
      Adv2("G1", <<>>, <<>>, <<Vuln("v1", "v2")>>),
      Adv2(None, GoodUrl, <<>>, <<Vuln("v1", "v2")>>),
      Adv2("", GoodUrl, <<>>, <<Vuln("v1", "v2")>>),
      Adv2("G1", GoodUrl, <<>>, <<Vuln("zz", "v2")>>),
      Adv2("G2", GoodUrl, <<CommitUrl("zz")>>, <<Vuln("v1", "v2")>>),
      Adv2("G2", GoodUrl, <<>>, <<Vuln("v1", "v1")>>),
      Adv2("G1", GoodUrl, <<IssueUrl>>, <<>>) }

Adv1(ghsa, url, vuln_old, patched_old, patched_new) ==
    [ghsa_id |-> ghsa, source_code_location |-> url, ecosystem |-> "npm",
     vulnerable_version_old |-> vuln_old, vulnerable_version_new |-> NaN,
     patched_version_old |-> patched_old, patched_version_new |-> patched_new]

\* rows of the CSV input of process_advisories
RecordsV1 ==
    { Adv1("G1", GoodUrl, "v1", "v1", "v2"),
      Adv1("G2", BadUrl, "v1", "v1", "v2"),
      Adv1("G1", NanUrl, "v1", "v1", "v2"),
      Adv1(NaN, GoodUrl, "v1", "v1", "v2"),
      Adv1("G2", GoodUrl, "zz", "zz", "v2"),
      Adv1("G1", GoodUrl, "zz", "v1", "v2"),
      Adv1("G2", GoodUrl, "v1", "v1", "v1"),
      Adv1("G1", GoodUrl, NaN, NaN, "v2") }

Lists(S, n) == UNION {[1..k -> S] : k \in 0..n}

\* the remote repository's two tagged trees
\*   1: both source files change, c.txt is deleted
\*   2: a/b.py is deleted, a__b.py stays as it is, c.txt is added
\*   3: a/b.py is added, a__b.py gains only its final line break
Worlds ==
    { [v1 |-> Tree(T_xnl, T_x, T_x), v2 |-> Tree(T_y, T_y, Absent)],
      [v1 |-> Tree(T_xy, T_x, Absent), v2 |-> Tree(Absent, T_x, T_x)],
      [v1 |-> Tree(Absent, T_x, T_x), v2 |-> Tree(T_x, T_xnl, T_x)] }

\* checkouts a previous run left: none, or a stale one that knows only v1
DirsBefore(which) ==
    { EmptyMap,
      [d \in {IF which = "v2" THEN <<"G1", "_", "demo", ".git">>
                ELSE <<"workspace", "/", "G1", "_", "demo">>} |->
          [local |-> {"v1"}, at |-> "v1"]] }

Init ==
    /\ impl \in {"v1", "v2"}
    /\ advisories \in Lists(IF impl = "v2" THEN RecordsV2 ELSE RecordsV1, MaxAdvisories)
    /\ remote \in Worlds
    /\ dirs \in DirsBefore(impl)
    /\ idx = 1
    /\ pc = "loop"
    /\ cur = EmptyCur
    /\ gitops = <<>>
    /\ artifacts = EmptyMap
    /\ prompts = EmptyMap
    /\ results = <<>>
    /\ emitted = <<>>
    /\ csv = NotWritten
    /\ writes = 0
    /\ log = <<>>

Next ==
    \/ V2Row \/ V2Clone \/ V2CheckoutOld \/ V2SnapshotOld \/ V2CheckoutNew
    \/ V2SnapshotNew \/ V2Diff \/ V2Emit
    \/ V1Row \/ V1Clone \/ V1Changed \/ V1Versions \/ V1Emit
    \/ Save

Spec == Init /\ [][Next]_vars

----------------------------------------------------------------------------
(* checkout and checkout_ref called on their own: one call on a checkout    *)
(* that knows some of the references                                       *)

CallDir == <<"G1", "_", "demo", ".git">>

InitCheckout ==
    /\ impl \in {"checkout", "checkout_ref"}
    /\ advisories = <<>>
    /\ remote \in {w \in Worlds : w.v1[P_txt] = T_x /\ w.v2[P_txt] = Absent}
    /\ \E local \in SUBSET RemoteRefs, at \in RemoteRefs :
         dirs = [d \in {CallDir} |-> [local |-> local, at |-> at]]
    /\ idx = 1
    /\ pc = "call"
    /\ \E ref \in {None, "", "v1", "v2", "zz"} :
         /\ impl = "checkout_ref" => Truthy(ref)
         /\ cur = [EmptyCur EXCEPT !.repo_dir = CallDir, !.commit_old = ref]
    /\ gitops = <<>>
    /\ artifacts = EmptyMap
    /\ prompts = EmptyMap
    /\ results = <<>>
    /\ emitted = <<>>
    /\ csv = NotWritten
    /\ writes = 0
    /\ log = <<>>

\* one call of checkout(repo, ref)
CallCheckout ==
    /\ impl = "checkout" /\ pc = "call"
    /\ \E net \in BOOLEAN :
         LET r == checkout(dirs, cur.repo_dir, cur.commit_old, net)
         IN /\ gitops' = Tag(r.ops, idx)
            /\ dirs' = r.dirs
            /\ pc' = IF r.ok THEN "returned True" ELSE "returned False"
    /\ UNCHANGED <<impl, advisories, remote, idx, cur, artifacts, prompts, results, emitted,
                   csv, writes, log>>

\* one call of checkout_ref(repo, ref)
CallCheckoutRef ==
    /\ impl = "checkout_ref" /\ pc = "call"
    /\ \E net \in BOOLEAN :
         LET r == checkout_ref(dirs, cur.repo_dir, cur.commit_old, net)
         IN /\ gitops' = Tag(r.ops, idx)
            /\ dirs' = r.dirs
            /\ pc' = IF r.raised THEN "raised" ELSE "returned None"
    /\ UNCHANGED <<impl, advisories, remote, idx, cur, artifacts, prompts, results, emitted,
                   csv, writes, log>>

NextCheckout == CallCheckout \/ CallCheckoutRef

SpecCheckout == InitCheckout /\ [][NextCheckout]_vars

----------------------------------------------------------------------------
(* What the history says about advisory i *)

Positions == 1..Len(advisories)

Did(i, cmd, ok) == \E k \in 1..Len(gitops) : gitops[k] = [adv |-> i, cmd |-> cmd, ok |-> ok]

CloneFailed(i) == Did(i, "clone", FALSE)

Logged(kind, i) == <<kind, i>> \in Range(log)

\* a checkout of advisory i was reported as failed
CheckoutWarned(i) ==
    Logged("WARN old", i) \/ Logged("WARN new", i) \/ Logged("warning checkout", i)

Emitted(i) == i \in Range(emitted)

\* the loop has left advisory i behind
Passed(i) == idx > i

Pipeline == impl \in {"v1", "v2"}

----------------------------------------------------------------------------
(* C1 *)

\* the part of C1 that is the clone handler's own: an advisory whose clone
\* failed has no result row, the failure was printed, and the loop went on to
\* the next advisory.
CloneFailureLeavesRow ==
    \A i \in Positions :
        CloneFailed(i) => ~Emitted(i) /\ Passed(i) /\ Logged("ERROR clone", i)

\* C1 as stated: an advisory whose clone failed has no result row, the later
\* advisories are attempted, and the run does not end before it has written
\* the result file.
C1_CloneFailureRunFinishes ==
    /\ CloneFailureLeavesRow
    /\ (\E i \in Positions : CloneFailed(i)) => pc # "crashed"

----------------------------------------------------------------------------
(* C2 *)

\* C2 as stated: an advisory with a failed checkout has no result row.
C2_CheckoutFailureSkips ==
    \A i \in Positions : CheckoutWarned(i) => ~Emitted(i)

\* C2, amended: a failed checkout is printed as a warning and the advisory is
\* not skipped: once the loop has left the advisory behind, its row is in the
\* table, exactly once.
C2_CheckoutFailureKeepsRow ==
    \A i \in Positions :
        CheckoutWarned(i) /\ Passed(i) =>
            Cardinality({k \in 1..Len(emitted) : emitted[k] = i}) = 1

\* a finished run with a row for an advisory whose checkout failed
C2_Witness ==
    pc = "done" /\ \E i \in Positions : CheckoutWarned(i) /\ Emitted(i)

----------------------------------------------------------------------------
(* C3 *)

\* the artifacts under diffs/<ghsa>/ that hold a diff of file p
DiffsOf(ghsa, p) ==
    {a \in DOMAIN artifacts :
        /\ SubSeq(a, 1, Len(SubDir("diffs", ghsa))) = SubDir("diffs", ghsa)
        /\ strip(artifacts[a]) # <<>>
        /\ SubSeq(artifacts[a], 1, Len(p) + 2) = <<"--- ">> \o p \o <<" (old)">>}

\* C3 as stated: an advisory of process_json whose clone and two checkouts
\* succeeded, with two distinct references, has exactly one row, and every
\* file that differs between the two references (deleted and added files
\* too) has exactly one non-empty diff artifact.
C3_EveryChangedFileHasOneDiff ==
    \A i \in Positions :
        (/\ impl = "v2" /\ Passed(i)
         /\ (Did(i, "clone", TRUE) \/ Did(i, "fetch", TRUE) \/ Did(i, "fetch", FALSE))
         /\ ~CheckoutWarned(i))
        => /\ Cardinality({k \in 1..Len(emitted) : emitted[k] = i}) = 1
           /\ \A k \in 1..Len(emitted) :
                emitted[k] = i /\ results[k].commit_old # results[k].commit_new =>
                    \A p \in Paths :
                        remote[results[k].commit_old][p] # remote[results[k].commit_new][p]
                        => Cardinality(DiffsOf(results[k].ghsa_id, p)) = 1

----------------------------------------------------------------------------
(* C4 *)

\* C4 as stated: within one advisory no two files are written to the same
\* artifact; the artifacts written for the advisory are pairwise distinct.
C4_ArtifactNamesDistinct ==
    impl = "v2" /\ pc = "emit" =>
        \A m, n \in 1..Len(cur.diff_paths) : m # n => cur.diff_paths[m] # cur.diff_paths[n]

----------------------------------------------------------------------------
(* C5 *)

Malformed(row) ==
    \/ row.ghsa_id \in {None, "", NaN}
    \/ row.source_code_location \in {NoUrl, <<>>, NanUrl}

\* C5 as stated: a record without identifier or without repository URL is
\* skipped with a message: no git command is run for it, it gets no row, and
\* the run goes on after it.
C5_MalformedRecordSkipped ==
    \A i \in Positions :
        Pipeline /\ Malformed(advisories[i]) =>
            /\ \A k \in 1..Len(gitops) : gitops[k].adv # i
            /\ ~Emitted(i)
            /\ ~(pc = "crashed" /\ idx = i)
            /\ (Passed(i) => Logged("SKIP", i))

----------------------------------------------------------------------------
(* C6 *)

\* C6 as stated: once the input is parsed no advisory ends the run; the run
\* never stops on an uncaught exception.
C6_NoAdvisoryIsFatal == pc # "crashed"

----------------------------------------------------------------------------
(* C7 *)

\* file texts and the contents of written diff files
RawContents ==
    ({remote[r][p] : r \in RemoteRefs, p \in Paths}
        \cup {artifacts[a] : a \in DOMAIN artifacts}) \ {<<>>, Absent}

\* v is file text, diff text or the output of git diff
IsRaw(v) == v \in RawContents \/ (v # <<>> /\ v[1] \in {"git diff", "git diff -U0"})

RefsAndIds == {None, NaN, "", "nan", "G1", "G2", "v1", "v2", "zz"}

RowV2IsMetadata(row) ==
    /\ {row.ghsa_id, row.commit_old, row.commit_new, row.vulnerable_range,
        row.patched_version} \subseteq RefsAndIds
    /\ ~IsRaw(row.repo_url) /\ ~IsRaw(row.prompts_dir)
    /\ \A k \in 1..Len(row.diff_files) :
         row.diff_files[k] \in DOMAIN artifacts /\ ~IsRaw(row.diff_files[k])

RowV1IsMetadata(row) ==
    /\ {row.ghsa_id, row.vulnerable_version_old, row.vulnerable_version_new,
        row.patched_version_old, row.patched_version_new} \subseteq RefsAndIds
    /\ row.ecosystem = "npm"
    /\ ~IsRaw(row.source_code_location) /\ ~IsRaw(row.prompts_dir)
    /\ row.git_diff_path \in DOMAIN artifacts /\ ~IsRaw(row.git_diff_path)
    /\ \A k \in 1..Len(row.gumtree_diff_paths.json) : ~IsRaw(row.gumtree_diff_paths.json[k])
    /\ \A k \in 1..Len(row.localized_hunks.json) :
         ~IsRaw(row.localized_hunks.json[k].git_hunk)

\* C7: every field of every result row is an identifier, a reference, a URL or
\* the path of a written file; none is file text, diff text or git output.
C7_RowsHoldNoContent ==
    Pipeline =>
        \A k \in 1..Len(results) :
            IF impl = "v2" THEN RowV2IsMetadata(results[k]) ELSE RowV1IsMetadata(results[k])

\* a row that names a written diff artifact
C7_Witness ==
    \E k \in 1..Len(results) :
        impl = "v2" /\ results[k].diff_files # <<>>
        /\ IsRaw(artifacts[results[k].diff_files[1]])

----------------------------------------------------------------------------
(* C8 *)

\* an advisory the loop left without a row: no URL, or a failed clone
Skipped(i) == Logged("SKIP", i) \/ CloneFailed(i)

\* the part of C8 that holds of every run: the rows are those of the
\* advisories that were not skipped, one each, in input order; the table is
\* written at most once, only after the loop has left every advisory behind,
\* with all the rows.
RowsInOrderSavedAtMostOnce ==
    Pipeline =>
        /\ Len(results) = Len(emitted)
        /\ \A k \in 1..Len(emitted) :
             /\ emitted[k] \in Positions
             /\ results[k].ghsa_id = advisories[emitted[k]].ghsa_id
             /\ \A m \in 1..Len(emitted) : k < m => emitted[k] < emitted[m]
        /\ \A i \in Positions : Passed(i) => (Emitted(i) <=> ~Skipped(i))
        /\ \A i \in Positions : ~Passed(i) => ~Emitted(i)
        /\ writes \in {0, 1}
        /\ (writes = 1 <=> pc = "done")
        /\ (IF writes = 0 THEN csv = NotWritten ELSE csv = results)
        /\ (writes = 1 => \A i \in Positions : Passed(i))

\* C8 as stated: one row per advisory that was not skipped, in input order,
\* and a run that has ended has written the table exactly once.
C8_OneRowEachInOrderSavedOnce ==
    /\ RowsInOrderSavedAtMostOnce
    /\ (Pipeline /\ pc \in {"done", "crashed"} => writes = 1)

----------------------------------------------------------------------------
(* C9 *)

\* C9: in the step that gets the repository, a destination that holds a valid
\* checkout is never cloned into: the step does exactly one fetch, does not
\* raise, keeps the checked-out reference, and leaves the checkout as it was
\* if the fetch failed; a destination without a checkout gets exactly one
\* clone and no fetch.
C9_NoCloneIntoValidCheckout ==
    [][Pipeline /\ pc = "clone" =>
         /\ Len(gitops') = Len(gitops) + 1
         /\ gitops'[Len(gitops')].adv = idx
         /\ IF cur.repo_dir \in DOMAIN dirs
            THEN /\ gitops'[Len(gitops')].cmd = "fetch"
                 /\ pc' \notin {"loop", "crashed"} /\ idx' = idx
                 /\ DOMAIN dirs' = DOMAIN dirs
                 /\ dirs'[cur.repo_dir].at = dirs[cur.repo_dir].at
                 /\ (~gitops'[Len(gitops')].ok => dirs' = dirs)
            ELSE /\ gitops'[Len(gitops')].cmd = "clone"
                 /\ (gitops'[Len(gitops')].ok <=> cur.repo_dir \in DOMAIN dirs')
    ]_vars

\* an advisory that reused a stale checkout after a failed fetch and got its row
C9_Witness ==
    \E i \in Positions :
        /\ Did(i, "fetch", FALSE) /\ Emitted(i)
        /\ ~Did(i, "clone", TRUE) /\ ~Did(i, "clone", FALSE)

----------------------------------------------------------------------------
(* C10 *)

\* the git commands of the call, in order
CallOps == [k \in 1..Len(gitops) |-> [cmd |-> gitops[k].cmd, ok |-> gitops[k].ok]]

CountOf(cmd) == Cardinality({k \in 1..Len(gitops) : gitops[k].cmd = cmd})

ReportedSuccess == pc \in {"returned True", "returned None"}

\* C10: a returned call of checkout or checkout_ref made at most two checkout
\* attempts and at most one fetch; it began with a checkout attempt, and a
\* successful first attempt is all it did; after a failed first attempt it
\* fetched once, and retried the checkout once if and only if the fetch
\* succeeded; it reported success exactly when its last command was a
\* successful checkout. (checkout makes no attempt for an empty reference
\* and reports failure.)
C10_TwoStepRetry ==
    impl \in {"checkout", "checkout_ref"} /\ pc # "call" =>
        /\ CountOf("checkout") <= 2 /\ CountOf("fetch") <= 1
        /\ IF CallOps = <<>>
           THEN impl = "checkout" /\ ~Truthy(cur.commit_old) /\ ~ReportedSuccess
           ELSE CASE CallOps[1] = Op("checkout", TRUE) ->
                       Len(CallOps) = 1 /\ ReportedSuccess
                  [] CallOps[1] = Op("checkout", FALSE) ->
                       \/ CallOps = <<Op("checkout", FALSE), Op("fetch", FALSE)>>
                          /\ ~ReportedSuccess
                       \/ CallOps = <<Op("checkout", FALSE), Op("fetch", TRUE),
                                      Op("checkout", FALSE)>>
                          /\ ~ReportedSuccess
                       \/ CallOps = <<Op("checkout", FALSE), Op("fetch", TRUE),
                                      Op("checkout", TRUE)>>
                          /\ ReportedSuccess
                  [] OTHER -> FALSE

\* a call whose first attempt failed and whose retry after the fetch succeeded
C10_Witness ==
    /\ impl = "checkout" /\ pc = "returned True"
    /\ CallOps = <<Op("checkout", FALSE), Op("fetch", TRUE), Op("checkout", TRUE)>>

----------------------------------------------------------------------------
(* process_json on one advisory, over every pair of trees of the two source *)
(* files and every pair of references                                      *)

DiffTexts == {Absent, T_x, T_xnl, T_y}

WorldsDiff ==
    { [v1 |-> Tree(a, b, T_x), v2 |-> Tree(c, d, T_x)] : a, b, c, d \in DiffTexts }

RecordsDiff ==
    { Adv2("G1", GoodUrl, <<>>, <<Vuln(old, new)>>) : old, new \in {"v1", "v2", "zz"} }

InitDiff ==
    /\ impl = "v2"
    /\ advisories \in [1..1 -> RecordsDiff]
    /\ remote \in WorldsDiff
    /\ dirs \in DirsBefore("v2")
    /\ idx = 1
    /\ pc = "loop"
    /\ cur = EmptyCur
    /\ gitops = <<>>
    /\ artifacts = EmptyMap
    /\ prompts = EmptyMap
    /\ results = <<>>
    /\ emitted = <<>>
    /\ csv = NotWritten
    /\ writes = 0
    /\ log = <<>>

NextDiff ==
    \/ V2Row \/ V2Clone \/ V2CheckoutOld \/ V2SnapshotOld \/ V2CheckoutNew
    \/ V2SnapshotNew \/ V2Diff \/ V2Emit
    \/ Save

SpecDiff == InitDiff /\ [][NextDiff]_vars

----------------------------------------------------------------------------
(* C11 *)

\* the diff loop of the current advisory has run
DiffsWritten == impl = "v2" /\ pc = "emit"

\* the part of C11 that is the diff loop's own: a file of the old snapshot
\* whose text is the same in the new snapshot has no diff written for it.
IdenticalTextNoDiff ==
    DiffsWritten =>
        \A p \in Range(cur.old_snapshot.keys) :
            Get(cur.old_snapshot, p) = Get(cur.new_snapshot, p)
            => DiffsOf(cur.ghsa, p) = {}

\* C11 as stated: a file whose text is the same in both snapshots has no diff
\* artifact, and an advisory whose old and new references are the same has
\* no per-file diff artifact at all.
C11_IdenticalGivesNoArtifact ==
    /\ IdenticalTextNoDiff
    /\ (DiffsWritten /\ cur.commit_old = cur.commit_new =>
            cur.diff_paths = <<>> /\ artifacts = EmptyMap)

----------------------------------------------------------------------------
(* C12 *)

\* the tree walks done so far for advisory i
WalksOf(i) == Cardinality({k \in 1..Len(gitops) : gitops[k] = [adv |-> i, cmd |-> "walk", ok |-> TRUE]})

\* the texts of the source files of a working tree
TreeTexts(tree) == [p \in {q \in Files(tree) : endswith(q, SourceExts)} |-> tree[p]]

\* the git commands a step added to the history
NewOps == SubSeq(gitops', Len(gitops) + 1, Len(gitops'))

\* C12: within one advisory of process_json the old snapshot is read after
\* the old checkout and before the new one, and the new snapshot after the
\* new checkout.  The step that reads the old snapshot is the advisory's
\* first walk, changes no checkout, reads the whole tree as the old checkout
\* left it (the old reference's tree if that checkout succeeded); the step
\* that checks out the new reference comes right after that walk, reads
\* nothing and leaves the old snapshot as read; the step that reads the new
\* snapshot is the second walk, on the tree the new checkout left.
\* process_advisories never reads a file's content.
C12_OldSnapshotBeforeNewCheckout ==
    [][/\ (impl = "v2" /\ pc = "snapshot_old" =>
             /\ WalksOf(idx) = 0
             /\ dirs' = dirs
             /\ NewOps = <<[adv |-> idx, cmd |-> "walk", ok |-> TRUE]>>
             /\ cur'.old_snapshot.val = TreeTexts(WorkTree(dirs, cur.repo_dir))
             /\ (~Logged("WARN old", idx) =>
                    cur'.old_snapshot.val = TreeTexts(remote[cur.commit_old]))
             /\ pc' = "checkout_new")
       /\ (impl = "v2" /\ pc = "checkout_new" =>
             /\ WalksOf(idx) = 1
             /\ gitops[Len(gitops)] = [adv |-> idx, cmd |-> "walk", ok |-> TRUE]
             /\ \A k \in 1..Len(NewOps) : NewOps[k].cmd \in {"checkout", "fetch"}
             /\ cur' = cur
             /\ pc' = "snapshot_new")
       /\ (impl = "v2" /\ pc = "snapshot_new" =>
             /\ WalksOf(idx) = 1
             /\ dirs' = dirs
             /\ NewOps = <<[adv |-> idx, cmd |-> "walk", ok |-> TRUE]>>
             /\ cur'.old_snapshot = cur.old_snapshot
             /\ cur'.new_snapshot.val = TreeTexts(WorkTree(dirs, cur.repo_dir))
             /\ (~Logged("WARN new", idx) =>
                    cur'.new_snapshot.val = TreeTexts(remote[cur.commit_new])))
       /\ (impl = "v1" => cur'.file_pairs = <<>>)
    ]_vars

\* both snapshots have been read after two successful checkouts of different
\* references, and they differ
C12_Witness ==
    /\ impl = "v2" /\ pc = "diff"
    /\ ~Logged("WARN old", idx) /\ ~Logged("WARN new", idx)
    /\ cur.commit_old # cur.commit_new
    /\ WalksOf(idx) = 2
    /\ cur.old_snapshot.val = TreeTexts(remote[cur.commit_old])
    /\ cur.new_snapshot.val = TreeTexts(remote[cur.commit_new])
    /\ cur.old_snapshot.val # cur.new_snapshot.val

====
